---------------------------- MODULE Spec2Model ----------------------------
(***************************************************************************)
(* Model of catastro.py: the scan of a street's house numbers against the  *)
(* Catastro OVC API, with the helpers that fetch and scrape the responses. *)
(*                                                                         *)
(* A response text is a sequence of tokens.  A token is an opening tag    *)
(* "<n>", a closing tag "</n>" or one character.  The regular expressions  *)
(* of the source are operators that search such a sequence the way         *)
(* re.search / re.findall do.  None is the empty tuple <<>> and a present  *)
(* value x is <<x>>.                                                       *)
(***************************************************************************)
EXTENDS Integers, Sequences, FiniteSets, TLC

VARIABLES
    pc,                  \* position in main, or "call"/"returned" for a helper
    args,                \* parsed command line
    del_code, mun_code,  \* result of step 1
    streets,             \* result of step 2
    si,                  \* index in streets of the street being scanned
    num,                 \* loop variable of the inner for
    consecutive_misses,
    found_in_street,
    prop,                \* the hit being completed by step 4
    properties,
    csv,                 \* None, or the rows written after the header
    trace,               \* history: every fetch_url call of main and the CSV write, in order
    input,               \* argument of the helper under test
    output               \* its result

vars == <<pc, args, del_code, mun_code, streets, si, num, consecutive_misses,
          found_in_street, prop, properties, csv, trace, input, output>>

None == <<>>
Some(x) == <<x>>

-----------------------------------------------------------------------------
(* Tokens *)

Open(n) == [k |-> "open", v |-> n]
Close(n) == [k |-> "close", v |-> n]
Chr(c) == [k |-> "chr", v |-> c]

Digits == {"0", "1", "2", "3", "4", "5", "6", "7", "8", "9"}

\* str of one element with the given content
Elem(n, content) == <<Open(n)>> \o content \o <<Close(n)>>

RECURSIVE Chars(_)
Chars(s) == IF s = <<>> THEN <<>> ELSE <<Chr(Head(s))>> \o Chars(Tail(s))

\* the characters matched by a group, as a Python str (sequence of characters)
RECURSIVE Str(_)
Str(toks) == IF toks = <<>> THEN <<>> ELSE <<Head(toks).v>> \o Str(Tail(toks))

\* character classes of the regular expressions
NotLt(t) == t.k = "chr"                       \* [^<]
IsDigit(t) == t.k = "chr" /\ t.v \in Digits   \* \d
DigitOrDot(t) == t.k = "chr" /\ (t.v \in Digits \/ t.v = ".")   \* [\d.]
IsSpace(t) == t.k = "chr" /\ t.v = " "        \* \s
NotZero(t) == ~(t.k = "chr" /\ t.v = "0")     \* [^0]

\* membership of a token in the class named cls
InClass(cls, t) ==
    CASE cls = "[^<]" -> NotLt(t)
      [] cls = "\\d" -> IsDigit(t)
      [] cls = "[\\d.]" -> DigitOrDot(t)
      [] cls = "\\s" -> IsSpace(t)

\* first index j >= i at which the run of tokens of class cls starting at i ends
RunEnd(txt, i, cls) ==
    CHOOSE j \in i..(Len(txt) + 1) :
        /\ \A m \in i..(j - 1) : InClass(cls, txt[m])
        /\ (j = Len(txt) + 1 \/ ~InClass(cls, txt[j]))

\* start positions of the matches of <n>(CLASS+)</n>
ElemStarts(txt, n, cls) ==
    {i \in 1..Len(txt) :
        /\ txt[i] = Open(n)
        /\ LET j == RunEnd(txt, i + 1, cls)
           IN  j > i + 1 /\ j <= Len(txt) /\ txt[j] = Close(n)}

ElemGroup(txt, i, cls) ==
    Str(SubSeq(txt, i + 1, RunEnd(txt, i + 1, cls) - 1))

Min(S) == CHOOSE x \in S : \A y \in S : x <= y

\* re.search(r"<n>(CLASS+)</n>", txt): None, or group(1) of the leftmost match
SearchElem(txt, n, cls) ==
    LET S == ElemStarts(txt, n, cls)
    IN  IF S = {} THEN None ELSE Some(ElemGroup(txt, Min(S), cls))

\* re.findall(r"<n>([^<]+)</n>", txt): group(1) of every match, left to right
RECURSIVE FindAllFrom(_, _, _)
FindAllFrom(txt, n, from) ==
    LET S == {i \in ElemStarts(txt, n, "[^<]") : i >= from}
    IN  IF S = {} THEN <<>>
        ELSE <<ElemGroup(txt, Min(S), "[^<]")>> \o FindAllFrom(txt, n, Min(S) + 1)

FindAll(txt, n) == FindAllFrom(txt, n, 1)

\* int(s) for a str of decimal digits
DigitVal(c) ==
    CASE c = "0" -> 0 [] c = "1" -> 1 [] c = "2" -> 2 [] c = "3" -> 3
      [] c = "4" -> 4 [] c = "5" -> 5 [] c = "6" -> 6 [] c = "7" -> 7
      [] c = "8" -> 8 [] c = "9" -> 9

RECURSIVE IntOf(_)
IntOf(s) ==
    IF s = <<>> THEN 0
    ELSE IntOf(SubSeq(s, 1, Len(s) - 1)) * 10 + DigitVal(s[Len(s)])

\* ET.fromstring(txt) does not raise ParseError: one root element, tags
\* properly nested, nothing but white space outside the root
RECURSIVE ParseFrom(_, _, _, _)
ParseFrom(txt, i, stack, root) ==
    IF i > Len(txt) THEN stack = <<>> /\ root
    ELSE LET t == txt[i] IN
         CASE t.k = "open" ->
                  IF stack = <<>> /\ root THEN FALSE
                  ELSE ParseFrom(txt, i + 1, <<t.v>> \o stack, TRUE)
           [] t.k = "close" ->
                  IF stack = <<>> \/ Head(stack) # t.v THEN FALSE
                  ELSE ParseFrom(txt, i + 1, Tail(stack), root)
           [] OTHER ->
                  IF stack = <<>> /\ ~IsSpace(t) THEN FALSE
                  ELSE ParseFrom(txt, i + 1, stack, root)

ParsesAsXml(txt) == ParseFrom(txt, 1, <<>>, FALSE)

-----------------------------------------------------------------------------
(* fetch_url *)

DefaultRetries == 3
SleepSeconds == 2

\* What one urlopen/read attempt does: it yields a body, raises URLError or
\* TimeoutError (both caught), or raises something else (not caught).
Ok(body) == [o |-> "ok", body |-> body]
Fails(e) == [o |-> e, body |-> <<>>]
Caught == {"URLError", "TimeoutError"}

Returned(v, n, sl) == [status |-> "return", value |-> v, requests |-> n, sleeps |-> sl]
Raised(n, sl) == [status |-> "raise", value |-> None, requests |-> n, sleeps |-> sl]

\* fetch_loop with the sleep also after the last failed request
RECURSIVE fetch_loop_SleepAfterLast(_, _, _, _)
fetch_loop_SleepAfterLast(outcomes, retries, attempt, sleeps) ==
    IF attempt >= retries THEN Returned(None, attempt, sleeps)
    ELSE LET out == outcomes[attempt + 1] IN
         CASE out.o = "ok" -> Returned(Some(out.body), attempt + 1, sleeps)
           [] out.o \in Caught ->
                  IF attempt < retries - 1
                  THEN fetch_loop_SleepAfterLast(outcomes, retries, attempt + 1,
                                                 Append(sleeps, SleepSeconds))
                  ELSE Returned(None, attempt + 1, Append(sleeps, SleepSeconds))
           [] OTHER -> Raised(attempt + 1, sleeps)

\* the for loop of fetch_url from iteration `attempt` on; outcomes[a + 1] is
\* what the request of iteration a does
RECURSIVE fetch_loop(_, _, _, _)
fetch_loop(outcomes, retries, attempt, sleeps) ==
    IF attempt >= retries THEN Returned(None, attempt, sleeps)
    ELSE LET out == outcomes[attempt + 1] IN
         CASE out.o = "ok" -> Returned(Some(out.body), attempt + 1, sleeps)
           [] out.o \in Caught ->
                  IF attempt < retries - 1
                  THEN fetch_loop(outcomes, retries, attempt + 1,
                                  Append(sleeps, SleepSeconds))
                  ELSE Returned(None, attempt + 1, sleeps)
           [] OTHER -> Raised(attempt + 1, sleeps)

fetch_url(outcomes, retries) == fetch_loop(outcomes, retries, 0, <<>>)

\* Python truth value of an Optional[str]: None and "" are false
Truthy(opt) == opt # None /\ opt[1] # <<>>

-----------------------------------------------------------------------------
(* lookup_municipality_codes *)

\* `f` is what fetch_url(url) did
lookup_municipality_codes(f) ==
    IF f.status = "raise" THEN [status |-> "raise", del_code |-> None, mun_code |-> None]
    ELSE IF ~Truthy(f.value)
    THEN [status |-> "return", del_code |-> None, mun_code |-> None]
    ELSE LET xml_text == f.value[1]
             cd == SearchElem(xml_text, "cd", "\\d")
             del_match == IF cd = None THEN SearchElem(xml_text, "cp", "\\d") ELSE cd
             cmc == SearchElem(xml_text, "cmc", "\\d")
             mun_match == IF cmc = None THEN SearchElem(xml_text, "cm", "\\d") ELSE cmc
         IN  [status |-> "return", del_code |-> del_match, mun_code |-> mun_match]

-----------------------------------------------------------------------------
(* discover_streets *)

CL == <<"C", "L">>

RECURSIVE PairStreets(_, _, _)
PairStreets(names, types, i) ==
    IF i > Len(names) THEN <<>>
    ELSE <<[sigla |-> IF i <= Len(types) THEN types[i] ELSE CL, name |-> names[i]]>>
         \o PairStreets(names, types, i + 1)

discover_streets(f, street_query) ==
    IF f.status = "raise" THEN [status |-> "raise", streets |-> <<>>]
    ELSE IF ~Truthy(f.value)
    THEN [status |-> "return", streets |-> <<[sigla |-> CL, name |-> street_query]>>]
    ELSE LET xml_text == f.value[1]
             names == FindAll(xml_text, "nv")
             types == FindAll(xml_text, "tv")
             found == PairStreets(names, types, 1)
         IN  [status |-> "return",
              streets |-> IF found = <<>>
                          THEN <<[sigla |-> CL, name |-> street_query]>>
                          ELSE found]

-----------------------------------------------------------------------------
(* get_property_from_api *)

\* re.search(r"<cuerr>[^0]", txt) matches
CuerrMatches(txt) ==
    \E i \in 1..(Len(txt) - 1) : txt[i] = Open("cuerr") /\ NotZero(txt[i + 1])

OrEmpty(opt) == IF opt = None THEN <<>> ELSE opt[1]

street_label(street_type, street_name) == street_type \o <<" ">> \o street_name

get_property_from_api(f, number, street_name, street_type) ==
    IF f.status = "raise" THEN [status |-> "raise", value |-> None]
    ELSE IF ~Truthy(f.value) THEN [status |-> "return", value |-> None]
    ELSE LET xml_text == f.value[1]
             pc1 == SearchElem(xml_text, "pc1", "[^<]")
             pc2 == SearchElem(xml_text, "pc2", "[^<]")
             car == SearchElem(xml_text, "car", "[^<]")
             cc1 == SearchElem(xml_text, "cc1", "[^<]")
             cc2 == SearchElem(xml_text, "cc2", "[^<]")
             sfc == SearchElem(xml_text, "sfc", "\\d")
             ant == SearchElem(xml_text, "ant", "\\d")
             luso == SearchElem(xml_text, "luso", "[^<]")
         IN  IF ~ParsesAsXml(xml_text) THEN [status |-> "return", value |-> None]
             ELSE IF CuerrMatches(xml_text) THEN [status |-> "return", value |-> None]
             ELSE IF pc1 = None \/ pc2 = None THEN [status |-> "return", value |-> None]
             ELSE [status |-> "return",
                   value |-> Some(
                     [number |-> number,
                      street |-> street_label(street_type, street_name),
                      referencia_catastral |->
                          pc1[1] \o pc2[1] \o OrEmpty(car) \o OrEmpty(cc1) \o OrEmpty(cc2),
                      parcel_ref |-> pc1[1] \o pc2[1],
                      built_surface_m2 |-> IF sfc = None THEN 0 ELSE IntOf(sfc[1]),
                      year |-> OrEmpty(ant),
                      use |-> OrEmpty(luso)])]

-----------------------------------------------------------------------------
(* get_plot_surface *)

IsTag(t) == t.k \in {"open", "close"}     \* the only tokens that end with ">"

\* "Superficie" and "grafica" are runs of letters kept as one token each
\* (re.IGNORECASE folds their case; "." of gr.fica matches the accented a)
\* the tag positions p at which  >([\d.]+)\s*m  matches, for a match of
\* Superficie\s+gr.fica starting at i
SurfaceTags(html, i) ==
    IF html[i] # Chr("Superficie") THEN {}
    ELSE LET j == RunEnd(html, i + 1, "\\s") IN
         IF j = i + 1 \/ j > Len(html) \/ html[j] # Chr("grafica") THEN {}
         ELSE {p \in (j + 1)..Len(html) :
                 /\ IsTag(html[p])
                 /\ LET q == RunEnd(html, p + 1, "[\\d.]")
                        r == RunEnd(html, q, "\\s")
                    IN  q > p + 1 /\ r <= Len(html) /\ html[r] = Chr("m")}

\* value.replace(".", "")
RECURSIVE RemoveDots(_)
RemoveDots(s) ==
    IF s = <<>> THEN <<>>
    ELSE (IF Head(s) = "." THEN <<>> ELSE <<Head(s)>>) \o RemoveDots(Tail(s))

\* the scrape of the viewer page: None, or the surface
surface_of(html) ==
    LET I == {i \in 1..Len(html) : SurfaceTags(html, i) # {}} IN
    IF I = {} THEN None
    ELSE LET p == Min(SurfaceTags(html, Min(I)))
             value == RemoveDots(Str(SubSeq(html, p + 1, RunEnd(html, p + 1, "[\\d.]") - 1)))
         IN  IF value = <<>> THEN None              \* int("") raises ValueError
             ELSE IF IntOf(value) > 0 THEN Some(IntOf(value)) ELSE None

\* get_plot_surface without the test of the two codes
get_plot_surface_NoGuard(cadastral_ref, dcode, mcode, f) ==
    IF f.status = "raise" THEN [status |-> "raise", value |-> None, fetched |-> TRUE]
    ELSE IF ~Truthy(f.value) THEN [status |-> "return", value |-> None, fetched |-> TRUE]
    ELSE [status |-> "return", value |-> surface_of(f.value[1]), fetched |-> TRUE]

\* `f` is what fetch_url(url) does if it is called; fetched tells whether it was
get_plot_surface(cadastral_ref, dcode, mcode, f) ==
    IF ~Truthy(dcode) \/ ~Truthy(mcode)
    THEN [status |-> "return", value |-> None, fetched |-> FALSE]
    ELSE IF f.status = "raise" THEN [status |-> "raise", value |-> None, fetched |-> TRUE]
    ELSE IF ~Truthy(f.value) THEN [status |-> "return", value |-> None, fetched |-> TRUE]
    ELSE [status |-> "return", value |-> surface_of(f.value[1]), fetched |-> TRUE]

-----------------------------------------------------------------------------
(* sorted(properties, key=lambda p: (p["street"], p["number"])) *)

\* ord(c)
Code(c) ==
    CASE c = " " -> 32 [] c = "A" -> 65 [] c = "B" -> 66 [] c = "C" -> 67
      [] c = "L" -> 76 [] c = "V" -> 86

\* a < b for two str
RECURSIVE StrLess(_, _)
StrLess(a, b) ==
    IF b = <<>> THEN FALSE
    ELSE IF a = <<>> THEN TRUE
    ELSE IF Head(a) # Head(b) THEN Code(Head(a)) < Code(Head(b))
    ELSE StrLess(Tail(a), Tail(b))

\* key(p) < key(q)
KeyLess(p, q) ==
    \/ StrLess(p.street, q.street)
    \/ p.street = q.street /\ p.number < q.number

\* insert p after every element whose key is not greater (the sort is stable)
RECURSIVE InsertSorted(_, _)
InsertSorted(sortedSeq, p) ==
    IF sortedSeq = <<>> THEN <<p>>
    ELSE IF KeyLess(p, Head(sortedSeq)) THEN <<p>> \o sortedSeq
    ELSE <<Head(sortedSeq)>> \o InsertSorted(Tail(sortedSeq), p)

\* the rows written in the order collected
sorted_Unsorted(props) == props

RECURSIVE sorted(_)
sorted(props) ==
    IF props = <<>> THEN <<>>
    ELSE InsertSorted(sorted(SubSeq(props, 1, Len(props) - 1)), props[Len(props)])

\* the list handed to writer.writerow for one property
csv_row(p) ==
    [referencia_catastral |-> p.referencia_catastral, number |-> p.number,
     street |-> p.street, built_surface_m2 |-> p.built_surface_m2,
     plot_surface_m2 |-> p.plot_surface_m2, year |-> p.year, use |-> p.use]

RECURSIVE csv_rows(_)
csv_rows(props) ==
    IF props = <<>> THEN <<>> ELSE <<csv_row(Head(props))>> \o csv_rows(Tail(props))

-----------------------------------------------------------------------------
(* main: command line and the responses the two servers may give *)

MaxNumber == 3       \* largest --max-number tried
MaxMisses == 1       \* largest --consecutive-misses tried

\* str.upper() on the letters used
UpperChar(c) == CASE c = "a" -> "A" [] c = "b" -> "B" [] OTHER -> c

RECURSIVE upper(_)
upper(s) == IF s = <<>> THEN <<>> ELSE <<UpperChar(Head(s))>> \o upper(Tail(s))

ArgsSet ==
    [max_number : 0..MaxNumber,
     consecutive_misses : 0..MaxMisses,
     no_plot_surface : BOOLEAN,
     street : {<<"a">>}]

Root(content) == Elem("r", content)

LookupBodies ==
    { Root(Elem("cd", Chars(<<"2", "8">>)) \o Elem("cmc", Chars(<<"8">>))),
      Root(Elem("cd", Chars(<<"2", "8">>))) }

DiscoverBodies ==
    { Root(Elem("tv", Chars(<<"C", "L">>)) \o Elem("nv", Chars(<<"B">>))
           \o Elem("tv", Chars(<<"A", "V">>)) \o Elem("nv", Chars(<<"A">>))),
      Root(Elem("nv", Chars(<<"A", "B">>))),
      Root(<<>>) }

HitBody ==
    Root(Elem("cuerr", Chars(<<"0">>))
         \o Elem("pc1", Chars(<<"1">>)) \o Elem("pc2", Chars(<<"2">>))
         \o Elem("car", Chars(<<"3">>)) \o Elem("cc1", Chars(<<"A">>))
         \o Elem("cc2", Chars(<<"B">>)) \o Elem("sfc", Chars(<<"1", "2">>))
         \o Elem("ant", Chars(<<"1", "9">>)) \o Elem("luso", Chars(<<"V">>)))

ErrorBody ==
    Root(Elem("cuerr", Chars(<<"1">>)) \o Elem("cod", Chars(<<"4", "3">>)))

ProbeBodies == {HitBody, ErrorBody}

SurfacePage ==
    Elem("label", <<Chr("Superficie"), Chr(" "), Chr("grafica")>>)
    \o Elem("span", Chars(<<"1", ".", "0", "5", "2", " ", "m">>))

PlotBodies == {SurfacePage, Elem("p", <<>>)}

\* what the attempts of one fetch_url call may do: the first request answers,
\* a time-out is followed by an answer, every request fails, or a request
\* raises an exception fetch_url does not catch
Scenarios(bodies) ==
    {<<Ok(b)>> : b \in bodies}
    \cup {<<Fails("TimeoutError"), Ok(b)>> : b \in bodies}
    \cup {<<Fails("URLError"), Fails("TimeoutError"), Fails("URLError")>>,
          <<Fails("URLError"), Fails("Other")>>}

Fetches(bodies) == {fetch_url(outs, DefaultRetries) : outs \in Scenarios(bodies)}

Event(kind, s, n, hit) == [kind |-> kind, street |-> s, number |-> n, hit |-> hit]

-----------------------------------------------------------------------------
(* main *)

FirstNumber == 1

\* the range running one number past --max-number
InRange_PastMax(n, max_number) == n <= max_number + 1

\* for num in range(1, args.max_number + 1) has a next value
InRange(n, max_number) == n <= max_number

\* if consecutive_misses > args.consecutive_misses: break
StopScan(misses, limit) == misses > limit

\* the counter kept across a hit
MissesAfterHit_NoReset(misses) == misses

\* consecutive_misses after a hit
MissesAfterHit(misses) == 0

\* prop["plot_surface_m2"]: an int n is kept as <<n>>, "" is <<>>
PlotField(plot_surface) == IF plot_surface # None /\ plot_surface[1] # 0 THEN plot_surface ELSE <<>>

WithPlot(p, plot_surface) ==
    [number |-> p.number, street |-> p.street,
     referencia_catastral |-> p.referencia_catastral, parcel_ref |-> p.parcel_ref,
     built_surface_m2 |-> p.built_surface_m2, year |-> p.year, use |-> p.use,
     plot_surface_m2 |-> PlotField(plot_surface)]

MainInit ==
    /\ pc = "step1"
    /\ args \in ArgsSet
    /\ del_code = None /\ mun_code = None
    /\ streets = <<>>
    /\ si = 0 /\ num = 0
    /\ consecutive_misses = 0 /\ found_in_street = 0
    /\ prop = None
    /\ properties = <<>>
    /\ csv = None
    /\ trace = <<>>
    /\ input = None /\ output = None

Crash ==
    /\ pc' = "crashed"
    /\ UNCHANGED <<args, del_code, mun_code, streets, si, num, consecutive_misses,
                   found_in_street, prop, properties, csv, input, output>>

\* Step 1 with --no-plot-surface: no lookup
Step1Skip ==
    /\ pc = "step1"
    /\ args.no_plot_surface
    /\ pc' = "step2"
    /\ UNCHANGED <<args, del_code, mun_code, streets, si, num, consecutive_misses,
                   found_in_street, prop, properties, csv, trace, input, output>>

\* Step 1: look up the municipality codes
Step1Lookup ==
    /\ pc = "step1"
    /\ ~args.no_plot_surface
    /\ \E f \in Fetches(LookupBodies) :
         LET r == lookup_municipality_codes(f) IN
         /\ trace' = Append(trace, Event("lookup", 0, 0, FALSE))
         /\ IF r.status = "raise" THEN Crash
            ELSE /\ del_code' = r.del_code
                 /\ mun_code' = r.mun_code
                 /\ pc' = "step2"
                 /\ UNCHANGED <<args, streets, si, num, consecutive_misses,
                                found_in_street, prop, properties, csv, input, output>>

\* Step 2: discover the streets
Step2Discover ==
    /\ pc = "step2"
    /\ \E f \in Fetches(DiscoverBodies) :
         LET r == discover_streets(f, upper(args.street)) IN
         /\ trace' = Append(trace, Event("discover", 0, 0, FALSE))
         /\ IF r.status = "raise" THEN Crash
            ELSE /\ streets' = r.streets
                 /\ si' = 1
                 /\ pc' = "street"
                 /\ UNCHANGED <<args, del_code, mun_code, num, consecutive_misses,
                                found_in_street, prop, properties, csv, input, output>>

\* Step 3, outer for: the next street, its counters at 0
NextStreet ==
    /\ pc = "street"
    /\ si <= Len(streets)
    /\ consecutive_misses' = 0
    /\ found_in_street' = 0
    /\ num' = FirstNumber
    /\ pc' = "scan"
    /\ UNCHANGED <<args, del_code, mun_code, streets, si, prop, properties, csv,
                   trace, input, output>>

\* Step 3, outer for exhausted
StreetsDone ==
    /\ pc = "street"
    /\ si > Len(streets)
    /\ pc' = "step5"
    /\ UNCHANGED <<args, del_code, mun_code, streets, si, num, consecutive_misses,
                   found_in_street, prop, properties, csv, trace, input, output>>

\* Step 3, inner for exhausted
RangeDone ==
    /\ pc = "scan"
    /\ ~InRange(num, args.max_number)
    /\ si' = si + 1
    /\ pc' = "street"
    /\ UNCHANGED <<args, del_code, mun_code, streets, num, consecutive_misses,
                   found_in_street, prop, properties, csv, trace, input, output>>

\* Step 3, one iteration of the inner for up to the plot surface
Probe ==
    /\ pc = "scan"
    /\ InRange(num, args.max_number)
    /\ \E f \in Fetches(ProbeBodies) :
         LET r == get_property_from_api(f, num, streets[si].name, streets[si].sigla) IN
         /\ trace' = Append(trace, Event("probe", si, num, r.value # None))
         /\ IF r.status = "raise" THEN Crash
            ELSE IF r.value = None
            THEN /\ consecutive_misses' = consecutive_misses + 1
                 /\ IF StopScan(consecutive_misses', args.consecutive_misses)
                    THEN si' = si + 1 /\ pc' = "street" /\ num' = num
                    ELSE si' = si /\ pc' = "scan" /\ num' = num + 1
                 /\ UNCHANGED <<args, del_code, mun_code, streets, found_in_street,
                                prop, properties, csv, input, output>>
            ELSE /\ consecutive_misses' = MissesAfterHit(consecutive_misses)
                 /\ found_in_street' = found_in_street + 1
                 /\ IF ~args.no_plot_surface
                    THEN /\ prop' = r.value
                         /\ pc' = "step4"
                         /\ UNCHANGED <<num, properties>>
                    ELSE /\ properties' = Append(properties, WithPlot(r.value[1], None))
                         /\ num' = num + 1
                         /\ UNCHANGED <<pc, prop>>
                 /\ UNCHANGED <<args, del_code, mun_code, streets, si, csv, input, output>>

\* Step 4 with the codes looked up again for every hit
Step4Plot_LookupPerHit ==
    /\ pc = "step4"
    /\ \E lf \in Fetches(LookupBodies), f \in Fetches(PlotBodies) :
         LET codes == lookup_municipality_codes(lf)
             r == get_plot_surface(prop[1].referencia_catastral,
                                   codes.del_code, codes.mun_code, f)
             looked == Append(trace, Event("lookup", 0, 0, FALSE))
         IN
         /\ trace' = IF r.fetched
                     THEN Append(looked, Event("sede", si, num, FALSE))
                     ELSE looked
         /\ IF codes.status = "raise" \/ r.status = "raise" THEN Crash
            ELSE /\ properties' = Append(properties, WithPlot(prop[1], r.value))
                 /\ prop' = None
                 /\ num' = num + 1
                 /\ pc' = "scan"
                 /\ UNCHANGED <<args, del_code, mun_code, streets, si, consecutive_misses,
                                found_in_street, csv, input, output>>

\* Step 4: the plot surface of the hit, then properties.append(prop)
Step4Plot ==
    /\ pc = "step4"
    /\ \E f \in Fetches(PlotBodies) :
         LET r == get_plot_surface(prop[1].referencia_catastral, del_code, mun_code, f) IN
         /\ trace' = IF r.fetched
                        THEN Append(trace, Event("sede", si, num, FALSE))
                        ELSE trace
         /\ IF r.status = "raise" THEN Crash
            ELSE /\ properties' = Append(properties, WithPlot(prop[1], r.value))
                 /\ prop' = None
                 /\ num' = num + 1
                 /\ pc' = "scan"
                 /\ UNCHANGED <<args, del_code, mun_code, streets, si, consecutive_misses,
                                found_in_street, csv, input, output>>

\* Step 5: write the CSV
Step5Write ==
    /\ pc = "step5"
    /\ csv' = Some(csv_rows(sorted(properties)))
    /\ trace' = Append(trace, Event("csv", 0, 0, FALSE))
    /\ pc' = "done"
    /\ UNCHANGED <<args, del_code, mun_code, streets, si, num, consecutive_misses,
                   found_in_street, prop, properties, input, output>>

Next ==
    \/ Step1Skip
    \/ Step1Lookup
    \/ Step2Discover
    \/ NextStreet
    \/ StreetsDone
    \/ RangeDone
    \/ Probe
    \/ Step4Plot
    \/ Step5Write

Spec == MainInit /\ [][Next]_vars

-----------------------------------------------------------------------------
(* Properties of main *)

IsProbe(e) == e.kind = "probe"

\* the probes of street s, in the order they were made
ProbesOf(s) == SelectSeq(trace, LAMBDA e : e.kind = "probe" /\ e.street = s)

\* the probes that returned a property, in the order they were made
Hits == SelectSeq(trace, LAMBDA e : e.kind = "probe" /\ e.hit)

\* length of the run of misses that ends the sequence of probes P
RECURSIVE TrailingMisses(_)
TrailingMisses(P) ==
    IF P = <<>> \/ P[Len(P)].hit THEN 0
    ELSE 1 + TrailingMisses(SubSeq(P, 1, Len(P) - 1))

\* the streets whose scan has ended
Scanned == {s \in 1..Len(streets) : s < si}

\* C1: once --consecutive-misses probes in a row have missed on a street, no
\* further house number of that street is probed.
C1_StopsAfterLimitMisses ==
    \A s \in 1..Len(streets) :
        LET P == ProbesOf(s)
            n == args.consecutive_misses
        IN  \A i \in 1..Len(P) :
                (n >= 1 /\ i >= n /\ \A m \in (i - n + 1)..i : ~P[m].hit)
                    => i = Len(P)

\* C2: the house numbers probed on a street are 1, 2, ..., k in this order,
\* each once, with k <= --max-number; every probe is of a discovered street.
C2_ContiguousAscendingRun ==
    /\ \A i \in 1..Len(trace) :
           IsProbe(trace[i]) => trace[i].street \in 1..Len(streets)
    /\ \A s \in 1..Len(streets) :
           LET P == ProbesOf(s)
           IN  /\ Len(P) <= args.max_number
               /\ \A i \in 1..Len(P) : P[i].number = i

\* a run over two streets: one scanned up to --max-number, one cut short
C2_Witness ==
    /\ pc = "done"
    /\ Len(streets) = 2
    /\ args.max_number = MaxNumber
    /\ Len(ProbesOf(1)) = MaxNumber
    /\ Len(ProbesOf(2)) \in 1..(MaxNumber - 1)

\* position of a phase in lookup -> discovery -> scan -> viewer page -> CSV
PhaseRank(kind) ==
    CASE kind = "lookup" -> 1 [] kind = "discover" -> 2 [] kind = "probe" -> 3
      [] kind = "sede" -> 4 [] kind = "csv" -> 5

\* C3 as stated: no request of an earlier phase follows a request of a later
\* phase, and the CSV is written after all requests.
C3_PhasesStrictlyOrdered ==
    \A i, j \in 1..Len(trace) :
        i < j => PhaseRank(trace[i].kind) <= PhaseRank(trace[j].kind)

\* the scan and the viewer-page fetches form one phase
ScanRank(kind) == IF kind = "sede" THEN 3 ELSE PhaseRank(kind)

\* C3 amended: lookup, then discovery, then the scan with the viewer-page
\* fetches inside it, then the CSV; a viewer-page fetch directly follows the
\* probe that returned the property it is for; the CSV write is last.
C3_PhasesOrderedScanInterleaved ==
    /\ \A i, j \in 1..Len(trace) :
           i < j => ScanRank(trace[i].kind) <= ScanRank(trace[j].kind)
    /\ \A j \in 1..Len(trace) :
           trace[j].kind = "sede" =>
               /\ j > 1
               /\ trace[j - 1] = Event("probe", trace[j].street, trace[j].number, TRUE)
    /\ \A i \in 1..Len(trace) : trace[i].kind = "csv" => i = Len(trace)
    /\ csv # None <=> (trace # <<>> /\ trace[Len(trace)].kind = "csv")

\* a finished run in which a probe followed a viewer-page fetch
C3_Witness ==
    /\ pc = "done"
    /\ trace[1].kind = "lookup"
    /\ \E i, j \in 1..Len(trace) :
           i < j /\ trace[i].kind = "sede" /\ trace[j].kind = "probe"

PlotSkipped == args.no_plot_surface \/ ~Truthy(del_code) \/ ~Truthy(mun_code)

\* C7: the viewer page is requested only without --no-plot-surface and with
\* both codes determined; with --no-plot-surface no lookup is made; where the
\* fetch is skipped every collected property has an empty plot_surface_m2.
C7_PlotSurfaceSkipped ==
    /\ (\E i \in 1..Len(trace) : trace[i].kind = "sede")
           => ~args.no_plot_surface /\ Truthy(del_code) /\ Truthy(mun_code)
    /\ args.no_plot_surface => \A i \in 1..Len(trace) : trace[i].kind # "lookup"
    /\ PlotSkipped =>
           /\ \A i \in 1..Len(properties) : properties[i].plot_surface_m2 = <<>>
           /\ csv # None =>
                  \A i \in 1..Len(csv[1]) : csv[1][i].plot_surface_m2 = <<>>

\* a finished run without --no-plot-surface in which only one code was found
\* and properties were collected
C7_Witness ==
    /\ pc = "done"
    /\ ~args.no_plot_surface
    /\ Truthy(del_code) /\ mun_code = None
    /\ Len(properties) >= 2

Count(seq, x) == Cardinality({i \in 1..Len(seq) : seq[i] = x})

\* C8: the CSV holds one row per hit and no other row, in ascending order of
\* (street, number).
C8_CsvCollectsHits ==
    csv # None =>
        LET rows == csv[1] IN
        /\ Len(rows) = Len(Hits)
        /\ Len(properties) = Len(Hits)
        /\ \A i \in 1..Len(Hits) :
               /\ properties[i].number = Hits[i].number
               /\ properties[i].street
                      = streets[Hits[i].street].sigla \o <<" ">> \o streets[Hits[i].street].name
        /\ \A i \in 1..Len(properties) :
               Count(rows, csv_row(properties[i])) = Count(properties, properties[i])
        /\ \A i, j \in 1..Len(rows) :
               i < j =>
                   \/ StrLess(rows[i].street, rows[j].street)
                   \/ rows[i].street = rows[j].street /\ rows[i].number <= rows[j].number

\* a CSV of hits on two streets, written in another order than collected
C8_Witness ==
    /\ csv # None
    /\ Len(csv[1]) >= 3
    /\ csv[1] # csv_rows(properties)
    /\ \E i, j \in 1..Len(Hits) : Hits[i].street # Hits[j].street

\* a probe that missed
MissStep ==
    /\ Len(trace') = Len(trace) + 1
    /\ trace'[Len(trace')].kind = "probe"
    /\ ~trace'[Len(trace')].hit

CounterIsCurrentRun ==
    /\ pc \in {"scan", "step4"} => consecutive_misses = TrailingMisses(ProbesOf(si))
    /\ \A s \in Scanned :
           Len(ProbesOf(s)) < args.max_number
               => TrailingMisses(ProbesOf(s)) = args.consecutive_misses + 1

\* C9: the miss counter is the length of the run of misses that ends the probes
\* of the current street, so a scan ends before --max-number only on a run of
\* misses of that street since its last hit; a miss leaves properties unchanged.
C9_MissCounterIsRunInStreet ==
    /\ []CounterIsCurrentRun
    /\ [][MissStep => properties' = properties]_vars

\* the second street is still scanned after a miss, a hit and a miss, although
\* the first street ended on a run of misses
C9_Witness ==
    /\ pc = "scan"
    /\ si = 2
    /\ Len(ProbesOf(1)) < args.max_number
    /\ args.consecutive_misses = 1
    /\ Len(ProbesOf(2)) = 3
    /\ ~ProbesOf(2)[1].hit /\ ProbesOf(2)[2].hit /\ ~ProbesOf(2)[3].hit
    /\ consecutive_misses = 1

-----------------------------------------------------------------------------
(* The helpers on their own: each specification draws an argument and makes
   one call *)

\* main is not running
NoMain ==
    /\ args = [max_number |-> 0, consecutive_misses |-> 0,
               no_plot_surface |-> TRUE, street |-> <<>>]
    /\ del_code = None /\ mun_code = None
    /\ streets = <<>>
    /\ si = 0 /\ num = 0
    /\ consecutive_misses = 0 /\ found_in_street = 0
    /\ prop = None
    /\ properties = <<>>
    /\ csv = None
    /\ trace = <<>>

MainVars == <<args, del_code, mun_code, streets, si, num, consecutive_misses,
              found_in_street, prop, properties, csv, trace>>

\* an optional element of a response
Field(n, opt) == IF opt = None THEN <<>> ELSE Elem(n, Chars(opt[1]))

(* fetch_url *)

MaxRetries == 3      \* largest retries tried

AttemptOutcomes ==
    {Ok(Chars(<<"1">>)), Ok(<<>>), Fails("URLError"), Fails("TimeoutError"), Fails("Other")}

FetchInit ==
    /\ pc = "call"
    /\ input \in [retries : 0..MaxRetries, outcomes : [1..MaxRetries -> AttemptOutcomes]]
    /\ output = None
    /\ NoMain

FetchCall ==
    /\ pc = "call"
    /\ output' = fetch_url(input.outcomes, input.retries)
    /\ pc' = "returned"
    /\ UNCHANGED <<input, MainVars>>

SpecFetch == FetchInit /\ [][FetchCall]_vars

\* the requests fetch_url made
Made == 1..output.requests

\* C5: with retries = r >= 1 fetch_url makes at most r requests, stops at the
\* first that succeeds and returns its body, returns None exactly when all r
\* requests failed with URLError or TimeoutError, and sleeps 2 seconds after
\* each failed request that another request follows, and at no other time.
C5_FetchRetries ==
    (pc = "returned" /\ input.retries >= 1) =>
        LET r == input.retries
            outs == input.outcomes
        IN  /\ output.requests \in 1..r
            /\ \A k \in Made : k < output.requests => outs[k].o \in Caught
            /\ \A k \in 1..r :
                   (outs[k].o = "ok" /\ \A m \in 1..(k - 1) : outs[m].o \in Caught)
                       => /\ output.status = "return"
                          /\ output.value = Some(outs[k].body)
                          /\ output.requests = k
            /\ (output.status = "return" /\ output.value = None)
                   <=> \A k \in 1..r : outs[k].o \in Caught
            /\ Len(output.sleeps)
                   = Cardinality({k \in Made : outs[k].o \in Caught /\ k + 1 \in Made})
            /\ \A k \in 1..Len(output.sleeps) : output.sleeps[k] = 2

\* two failures, then the third and last request answers
C5_Witness ==
    /\ pc = "returned"
    /\ input.retries = 3
    /\ output.requests = 3
    /\ output.value # None
    /\ output.sleeps = <<2, 2>>

(* lookup_municipality_codes *)

CodeContents == {None, Some(<<"2", "8">>), Some(<<"x">>), Some(<<>>)}

LookupText(d) ==
    Root(Field("cd", d.cd) \o Field("cmc", d.cmc) \o Field("cp", d.cp) \o Field("cm", d.cm))

LookupTexts ==
    {LookupText(d) : d \in [cd : CodeContents, cmc : CodeContents,
                            cp : CodeContents, cm : CodeContents]}

LookupInit ==
    /\ pc = "call"
    /\ input \in Fetches(LookupTexts \cup {<<>>})
    /\ output = None
    /\ NoMain

LookupCall ==
    /\ pc = "call"
    /\ output' = lookup_municipality_codes(input)
    /\ pc' = "returned"
    /\ UNCHANGED <<input, MainVars>>

SpecLookup == LookupInit /\ [][LookupCall]_vars

\* C4: lookup_municipality_codes returns both codes or (None, None), never
\* one code without the other.
C4_BothCodesOrNone ==
    (pc = "returned" /\ output.status = "return") =>
        (output.del_code = None <=> output.mun_code = None)

(* get_property_from_api *)

\* the fields of a Consulta_DNPLOC response: None is an absent element
PropertyFields ==
    [cuerr : {None, Some(<<"0">>), Some(<<"1">>), Some(<<"1", "0">>), Some(<<"0", "1">>)},
     pc1 : {None, Some(<<"1">>)},
     pc2 : {None, Some(<<"2">>)},
     car : {None, Some(<<"3">>)},
     cc1 : {None, Some(<<"A">>)},
     cc2 : {None, Some(<<"B">>)},
     sfc : {None, Some(<<"1", "2">>)},
     ant : {None, Some(<<"1", "9">>)},
     luso : {None, Some(<<"V">>)},
     closed : BOOLEAN]

PropertyText(d) ==
    <<Open("r")>>
    \o Field("cuerr", d.cuerr) \o Field("pc1", d.pc1) \o Field("pc2", d.pc2)
    \o Field("car", d.car) \o Field("cc1", d.cc1) \o Field("cc2", d.cc2)
    \o Field("sfc", d.sfc) \o Field("ant", d.ant) \o Field("luso", d.luso)
    \o (IF d.closed THEN <<Close("r")>> ELSE <<>>)

\* how the fetch of the response goes
FetchWays == {"ok", "retry", "fail", "raise"}

FetchOf(way, text) ==
    fetch_url(CASE way = "ok" -> <<Ok(text)>>
                [] way = "retry" -> <<Fails("TimeoutError"), Ok(text)>>
                [] way = "fail" -> <<Fails("URLError"), Fails("TimeoutError"), Fails("URLError")>>
                [] way = "raise" -> <<Fails("URLError"), Fails("Other")>>,
              DefaultRetries)

PropertyInit ==
    /\ pc = "call"
    /\ input \in [d : PropertyFields, way : FetchWays]
    /\ input.way \in {"retry", "fail", "raise"} => input.d.car = None /\ input.d.luso = None
    /\ output = None
    /\ NoMain

PropertyCall ==
    /\ pc = "call"
    /\ output' = get_property_from_api(FetchOf(input.way, PropertyText(input.d)),
                                       7, <<"A">>, CL)
    /\ pc' = "returned"
    /\ UNCHANGED <<input, MainVars>>

SpecProperty == PropertyInit /\ [][PropertyCall]_vars

\* C6: a record is returned exactly when the fetch succeeded, the body parses
\* as XML, the error count <cuerr> is zero or absent and pc1 and pc2 are
\* present; an absent car, cc1, cc2, sfc, ant or luso gives its default.
C6_RecordIffNoErrorAndRefParts ==
    (pc = "returned" /\ output.status = "return") =>
        LET d == input.d
            rec == output.value
        IN  /\ rec # None
                <=> /\ input.way \in {"ok", "retry"}
                    /\ d.closed
                    /\ (d.cuerr = None \/ IntOf(d.cuerr[1]) = 0)
                    /\ d.pc1 # None /\ d.pc2 # None
            /\ rec # None =>
                   /\ rec[1].referencia_catastral
                          = d.pc1[1] \o d.pc2[1] \o OrEmpty(d.car) \o OrEmpty(d.cc1)
                            \o OrEmpty(d.cc2)
                   /\ d.sfc = None => rec[1].built_surface_m2 = 0
                   /\ d.ant = None => rec[1].year = <<>>
                   /\ d.luso = None => rec[1].use = <<>>

=============================================================================
